---- MODULE Spec2Model ----
(***************************************************************************)
(* Model of svd-mmap (src/src/lib.rs): the code generated for a register   *)
(* (snapshot reader, staged writer with commit on drop), the field codec   *)
(* (gen_get / gen_update / gen_type) and the peripheral layout builder     *)
(* (gen_periph).                                                           *)
(*                                                                         *)
(* Words are the u32 values of the generated code, kept as naturals.  The  *)
(* registers of the model keep every field below bit 31, so no shift       *)
(* drops a bit and no value leaves the range of the model checker's        *)
(* integers.  The source uses `!` only as an operand of `&`, which is the  *)
(* operator AndNot.                                                        *)
(***************************************************************************)
EXTENDS Integers, Sequences, FiniteSets, TLC

\* ------------------------------------------------------------------ bounds

\* Hardware words the register may hold before a scope starts: 0..MaxHw.
MaxHw == 255

\* Largest argument handed to a setter of an integer-typed field.
MaxNewValue == 7

\* Hardware reads the snapshot reader makes of one register in one
\* behaviour.
MaxReads == 2

\* Field widths handed to type selection and to generation: 0..MaxWidth.
MaxWidth == 65

\* Registers of the peripheral handed to the layout builder, and the
\* largest address offset among them.
MaxRegs == 3

MaxOffset == 9

\* ------------------------------------------------------------- u32 helpers

RECURSIVE And(_, _)
\* x & y
And(x, y) ==
    IF x = 0 \/ y = 0 THEN 0
    ELSE (x % 2) * (y % 2) + 2 * And(x \div 2, y \div 2)

RECURSIVE Or(_, _)
\* x | y
Or(x, y) ==
    IF x = 0 THEN y
    ELSE IF y = 0 THEN x
    ELSE (IF x % 2 = 1 \/ y % 2 = 1 THEN 1 ELSE 0) + 2 * Or(x \div 2, y \div 2)

RECURSIVE AndNot(_, _)
\* x & !y
AndNot(x, y) ==
    IF x = 0 THEN 0
    ELSE (x % 2) * (1 - (y % 2)) + 2 * AndNot(x \div 2, y \div 2)

\* x << n (no bit of x reaches bit 32 in this model)
Shl(x, n) == x * (2 ^ n)

\* x >> n
Shr(x, n) == x \div (2 ^ n)

\* ------------------------------------------------------------ input model

NoName == "NoName"

\* Option<EnumeratedValues>: None, and Some with an optional name.
NoEnum == [some |-> FALSE, name |-> NoName, values |-> << >>]

Enum(n, vs) == [some |-> TRUE, name |-> n, values |-> vs]

\* svd::Access, and None for an absent <access>.
AccessModes == {"None", "ReadOnly", "WriteOnly", "ReadWrite"}

EnumValue(n, v) == [name |-> n, value |-> v]

\* The enumerated values of the tests: NONE = 0, EVEN = 2, ODD = 3.
ParityValues == << EnumValue("NONE", 0), EnumValue("EVEN", 2), EnumValue("ODD", 3) >>

MkField(n, o, w, a, e) ==
    [name |-> n, offset |-> o, width |-> w, access |-> a, enum |-> e]

MkReg(n, o, a, fs) == [name |-> n, address_offset |-> o, access |-> a, fields |-> fs]

\* The registers the generated protocol is exercised on.
Regs ==
    << MkReg("AB", 0, "None",
             << MkField("A", 0, 4, "None", NoEnum),
                MkField("B", 4, 4, "None", NoEnum) >>),
       MkReg("BAZ", 0, "None",
             << MkField("FOO", 0, 1, "ReadWrite", NoEnum),
                MkField("BAR", 1, 1, "ReadWrite", NoEnum) >>),
       MkReg("CR", 0, "ReadWrite",
             << MkField("PARITY", 2, 3, "ReadWrite",
                        Enum("PARITY", ParityValues)),
                MkField("SPE", 6, 1, "ReadWrite", NoEnum),
                MkField("TXE", 7, 1, "ReadOnly", NoEnum) >>),
       MkReg("DR", 0, "WriteOnly",
             << MkField("TXD", 1, 2, "None", NoEnum),
                MkField("STOP", 0, 1, "None", NoEnum) >>),
       MkReg("ZW", 0, "None",
             << MkField("EN", 1, 1, "None", NoEnum),
                MkField("MODE", 5, 0, "None",
                        Enum(NoName, << EnumValue("OFF", 0) >>)) >>) >>

\* ------------------------------------------------------------ field codec

\* inflections::Inflect::to_pascal_case, on the names it is applied to in
\* the model.
to_pascal_case(s) ==
    CASE s = "PARITY" -> "Parity"
      [] s = "UART_PARITY" -> "UartParity"
      [] s = "MODE" -> "Mode"
      [] s = "RX" -> "Rx"
      [] s = "NONE" -> "None"
      [] s = "EVEN" -> "Even"
      [] s = "ODD" -> "Odd"
      [] s = "OFF" -> "Off"
      [] s = "UART" -> "Uart"
      [] s = "UARTA" -> "Uarta"
      [] s = "UARTB" -> "Uartb"
      [] s = "Uartc" -> "Uartc"

\* inflections::Inflect::to_snake_case, on the names it is applied to in
\* the model.
to_snake_case(s) ==
    CASE s = "STM" -> "stm"
      [] s = "UART" -> "uart"
      [] s = "UARTA" -> "uarta"
      [] s = "UARTB" -> "uartb"
      [] s = "Uartc" -> "uartc"
      [] s = "mmap_STM_UART" -> "mmap_stm_uart"
      [] s = "mmap_STM_UARTA" -> "mmap_stm_uarta"
      [] s = "mmap_STM_UARTB" -> "mmap_stm_uartb"
      [] s = "mmap_STM_Uartc" -> "mmap_stm_uartc"

\* inflections::Inflect::to_constant_case, on the names it is applied to in
\* the model.
to_constant_case(s) ==
    CASE s = "UART" -> "UART"
      [] s = "UARTA" -> "UARTA"
      [] s = "UARTB" -> "UARTB"
      [] s = "Uartc" -> "UARTC"

\* The peripheral names of the model in the order of BTreeSet<&str>.
NameOrder == << "UART", "UARTA", "UARTB", "Uartc" >>

Ty(k, n) == [kind |-> k, name |-> n]

\* panic!("Unknown bit width")
UnknownBitWidth == Ty("panic", "Unknown bit width")

\* gen_type with the first integer range read as exclusive of 8.
gen_type_exclusive(f) ==
    IF f.enum.some
    THEN Ty("id", to_pascal_case(IF f.enum.name # NoName THEN f.enum.name ELSE f.name))
    ELSE CASE f.width = 1 -> Ty("bool", "bool")
           [] f.width \in 2..7 -> Ty("u8", "u8")
           [] f.width \in 9..16 -> Ty("u16", "u16")
           [] f.width \in 17..32 -> Ty("u32", "u32")
           [] f.width \in 33..64 -> Ty("u64", "u64")
           [] OTHER -> UnknownBitWidth

\* GenField::gen_type: the Rust type of a field.
gen_type(f) ==
    IF f.enum.some
    THEN Ty("id", to_pascal_case(IF f.enum.name # NoName THEN f.enum.name ELSE f.name))
    ELSE CASE f.width = 1 -> Ty("bool", "bool")
           [] f.width \in 2..8 -> Ty("u8", "u8")
           [] f.width \in 9..16 -> Ty("u16", "u16")
           [] f.width \in 17..32 -> Ty("u32", "u32")
           [] f.width \in 33..64 -> Ty("u64", "u64")
           [] OTHER -> UnknownBitWidth

\* `$bit_width` and `$bit_offset` as the quoted code uses them: the width
\* itself stands where a mask is meant.
bit_width(f) == f.width

bit_offset(f) == f.offset

\* The values of an enumerated field's variants.
EnumVals(f) == { f.enum.values[i].value : i \in 1..Len(f.enum.values) }

\* The arguments a caller can hand to a field's setter: a value of the
\* field's type, as `new_value as u32`.
SetterInputs(f) ==
    IF f.enum.some THEN EnumVals(f)
    ELSE IF f.width = 1 THEN {0, 1}
    ELSE 0..MaxNewValue

\* --------------------------------------------------------- staged writer

\* <Reg>Update::new and new_ignoring_state.
new(wo) == [state |-> "Created", value |-> 0, mask |-> 0, write_only |-> wo]

\* A setter that stores the new field value over the staged word instead of
\* merging it.
set_field_overwrite(u, f, x) ==
    [u EXCEPT
       !.value = Shl(And(x, bit_width(f)), bit_offset(f)),
       !.mask = Or(u.mask, Shl(bit_width(f), bit_offset(f)))]

\* <Reg>Update::set_<field>: the generated setter.
set_field(u, f, x) ==
    [u EXCEPT
       !.value = Or(AndNot(u.value, Shl(bit_width(f), bit_offset(f))),
                    Shl(And(x, bit_width(f)), bit_offset(f))),
       !.mask = Or(u.mask, Shl(bit_width(f), bit_offset(f)))]

\* let clear_mask: u32 = 1u32 as u32;
clear_mask == 1

Read == [op |-> "read", v |-> 0]

Write(v) == [op |-> "write", v |-> v]

\* A commit that clears the unset bits with one store and sets the staged
\* bits with a second one.
drop_two_stores(u, h) ==
    IF u.mask # 0
    THEN LET base == IF u.write_only THEN 0 ELSE h
             v == AndNot(AndNot(base, 1), u.mask)
         IN  (IF u.write_only THEN << >> ELSE << [op |-> "read", v |-> 0] >>)
             \o << [op |-> "write", v |-> v], [op |-> "write", v |-> Or(u.value, v)] >>
    ELSE << >>

\* A commit that reads the register whatever the writer's mode.
drop_reads_always(u, h) ==
    IF u.mask # 0
    THEN LET base == IF u.write_only THEN 0 ELSE h
             v == AndNot(AndNot(base, 1), u.mask)
         IN  << [op |-> "read", v |-> 0], [op |-> "write", v |-> Or(u.value, v)] >>
    ELSE << >>

\* Drop for <Reg>Update: the hardware accesses of the commit, in order,
\* given the word h the register holds.
drop(u, h) ==
    IF u.mask # 0
    THEN LET base == IF u.write_only THEN 0 ELSE h
             v == AndNot(AndNot(base, clear_mask), u.mask)
         IN  (IF u.write_only THEN << >> ELSE << Read >>)
             \o << Write(Or(u.value, v)) >>
    ELSE << >>

\* The register's word after a sequence of hardware accesses.
Apply(h, evs) ==
    LET ws == SelectSeq(evs, LAMBDA e : e.op = "write")
    IN  IF ws = << >> THEN h ELSE ws[Len(ws)].v

\* GenReg::gen_mmap: the updater exists unless the register is read-only,
\* a field's setter unless the register or the field is read-only; the
\* getter exists unless the register is write-only, a field's getter unless
\* the register or the field is write-only.
HasUpdater(r) == r.access # "ReadOnly"

HasSetter(r, f) == r.access # "ReadOnly" /\ f.access # "ReadOnly"

HasGetter(r) == r.access # "WriteOnly"

HasFieldGetter(r, f) == r.access # "WriteOnly" /\ f.access # "WriteOnly"

\* ------------------------------------------------------------ generation

Peripheral(n, g, b, d, rs) ==
    [name |-> n, group_name |-> g, base_address |-> b, derived_from |-> d,
     registers |-> rs]

Names(fs) == [k \in 1..Len(fs) |-> fs[k].name]

AnyPanics(fs) == \E k \in 1..Len(fs) : gen_type(fs[k]) = UnknownBitWidth

\* GenField::gen_type_def: the enum a field with enumerated values declares.
TypeDefs(fs) ==
    LET es == SelectSeq(fs, LAMBDA f : f.enum.some)
    IN  [k \in 1..Len(es) |->
            to_pascal_case(IF es[k].enum.name # NoName THEN es[k].enum.name
                           ELSE es[k].name)]

\* GenReg::gen_mmap: what is generated for a register.  gen_get and
\* gen_update call gen_type, which may panic.
gen_mmap(r) ==
    LET gets == IF HasGetter(r)
                THEN SelectSeq(r.fields, LAMBDA f : HasFieldGetter(r, f))
                ELSE << >>
        updates == IF HasUpdater(r)
                   THEN SelectSeq(r.fields, LAMBDA f : HasSetter(r, f))
                   ELSE << >>
    IN  IF AnyPanics(gets) \/ AnyPanics(updates)
        THEN [panic |-> TRUE, reg |-> r.name, getter |-> FALSE, updater |-> FALSE,
              type_defs |-> << >>, gets |-> << >>, updates |-> << >>]
        ELSE [panic |-> FALSE, reg |-> r.name,
              getter |-> HasGetter(r), updater |-> HasUpdater(r),
              type_defs |-> TypeDefs(r.fields),
              gets |-> Names(gets), updates |-> Names(updates)]

RECURSIVE sort_by_key(_)
\* sorted_regs.sort_by_key(|r| r.address_offset): a stable sort.
sort_by_key(rs) ==
    IF rs = << >> THEN << >>
    ELSE LET init == sort_by_key(SubSeq(rs, 1, Len(rs) - 1))
             r == rs[Len(rs)]
             k == Cardinality({ j \in 1..Len(init) :
                                  init[j].address_offset <= r.address_offset })
         IN  SubSeq(init, 1, k) \o << r >> \o SubSeq(init, k + 1, Len(init))

\* A slot of the register block: `pub <reg>: <Reg>,` (4 bytes, a
\* VolatileCell<u32>) or `_pad<n>: [u8; delta],`.
RegSlot(n) == [kind |-> "reg", name |-> n, size |-> 4]

PadSlot(n, delta) == [kind |-> "pad", name |-> n, size |-> delta]

LayoutStart == [offset |-> 0, pad_num |-> 0, reg_vec |-> << >>]

\* The loop body with the padding sized by the register's offset alone.
layout_step_no_cursor(st, r) ==
    IF r.address_offset < st.offset THEN st
    ELSE LET padded ==
                 IF st.offset # r.address_offset
                 THEN [st EXCEPT
                         !.reg_vec = Append(@, PadSlot(st.pad_num, r.address_offset)),
                         !.pad_num = @ + 1]
                 ELSE st
         IN  [padded EXCEPT !.reg_vec = Append(@, RegSlot(r.name)),
                            !.offset = r.address_offset + 4]

\* The loop body without the overlap test: a register below the cursor is
\* declared like any other.
layout_step_keep_overlap(st, r) ==
    LET padded ==
            IF st.offset < r.address_offset
            THEN [st EXCEPT
                    !.reg_vec = Append(@, PadSlot(st.pad_num,
                                                  r.address_offset - st.offset)),
                    !.pad_num = @ + 1]
            ELSE st
    IN  [padded EXCEPT !.reg_vec = Append(@, RegSlot(r.name)),
                       !.offset = r.address_offset + 4]

\* gen_periph: the body of `for reg in sorted_regs`.  (The offsets of the
\* model are far below 2^32 - 4: the cursor never wraps.)
layout_step(st, r) ==
    IF r.address_offset < st.offset THEN st
    ELSE LET padded ==
                 IF st.offset # r.address_offset
                 THEN [st EXCEPT
                         !.reg_vec = Append(@, PadSlot(st.pad_num,
                                                       r.address_offset - st.offset)),
                         !.pad_num = @ + 1]
                 ELSE st
         IN  [padded EXCEPT !.reg_vec = Append(@, RegSlot(r.name)),
                            !.offset = r.address_offset + 4]

RECURSIVE layout_loop(_, _, _)
layout_loop(st, rs, i) ==
    IF i > Len(rs) THEN st ELSE layout_loop(layout_step(st, rs[i]), rs, i + 1)

\* gen_periph: the register block of a peripheral and the items of each of
\* its registers, in input order.
gen_periph(p) ==
    LET items == [k \in 1..Len(p.registers) |-> gen_mmap(p.registers[k])]
        panics == \E k \in 1..Len(items) : items[k].panic
    IN  [panic |-> panics,
         ty |-> to_pascal_case(IF p.group_name # NoName THEN p.group_name ELSE p.name),
         reg_vec |-> IF panics THEN << >>
                     ELSE layout_loop(LayoutStart, sort_by_key(p.registers), 1).reg_vec,
         items |-> IF panics THEN << >> ELSE items]

\* gen_device: name -> the names of the peripherals derived from it.
derived_from(d) ==
    LET ps == d.peripherals
        bases == { ps[k].derived_from : k \in { j \in 1..Len(ps) :
                                                  ps[j].derived_from # NoName } }
    IN  [b \in bases |->
            { ps[k].name : k \in { j \in 1..Len(ps) : ps[j].derived_from = b } }]

\* const LINK_MEM_PREFIX: &'static str = "mmap_";
LINK_MEM_PREFIX == "mmap_"

\* The link symbol of the peripheral named n of device d.
link_name(d, n) == to_snake_case(LINK_MEM_PREFIX \o d.name \o "_" \o n)

\* extern { #[link_name=$link_name] pub static $periph_name: $periph_ty; }
Static(l, n, t) == [link_name |-> l, periph_name |-> n, periph_ty |-> t]

\* The link declarations of a module without those of the peripherals
\* derived from its peripheral.
statics_base_only(d, periph, periph_ty) ==
    << Static(link_name(d, periph.name), to_constant_case(periph.name),
              periph_ty) >>

\* gen_device: the link declarations of a module: that of the peripheral,
\* then one for every peripheral derived from it, in the order of the set.
statics(d, periph, periph_ty) ==
    LET set == IF periph.name \in DOMAIN derived_from(d)
               THEN derived_from(d)[periph.name] ELSE {}
        names == SelectSeq(NameOrder, LAMBDA n : n \in set)
    IN  << Static(link_name(d, periph.name), to_constant_case(periph.name),
                  periph_ty) >>
        \o [k \in 1..Len(names) |->
              Static(link_name(d, names[k]), to_constant_case(names[k]), periph_ty)]

RECURSIVE peripheral_items(_, _, _)
\* gen_device: the module of every peripheral that is not derived, from
\* peripheral k on, given the module names already defined.
peripheral_items(d, k, module_name_set) ==
    IF k > Len(d.peripherals) THEN << >>
    ELSE LET periph == d.peripherals[k]
             periph_name ==
                 IF periph.name \in DOMAIN derived_from(d)
                    /\ periph.group_name # NoName
                    /\ periph.group_name \notin module_name_set
                 THEN periph.group_name
                 ELSE periph.name
             periph_ty == to_pascal_case(IF periph.group_name # NoName
                                         THEN periph.group_name
                                         ELSE periph_name)
         IN  IF periph.derived_from # NoName
             THEN peripheral_items(d, k + 1, module_name_set)
             ELSE << [periph_name |-> periph_name,
                      mod_name |-> to_snake_case(periph_name),
                      periph_ty |-> periph_ty,
                      periph_items |-> gen_periph(periph),
                      statics |-> statics(d, periph, periph_ty),
                      base |-> periph.name,
                      aliases |-> IF periph.name \in DOMAIN derived_from(d)
                                  THEN derived_from(d)[periph.name] ELSE {}] >>
                  \o peripheral_items(d, k + 1, module_name_set \cup {periph_name})

\* gen_device: the device module, or a panic raised while generating one of
\* its peripherals.
gen_device(d) ==
    LET mods == peripheral_items(d, 1, {})
        panics == \E k \in 1..Len(mods) : mods[k].periph_items.panic
    IN  [done |-> TRUE, panic |-> panics, dev_name |-> to_snake_case(d.name),
         mods |-> IF panics THEN << >> ELSE mods]

\* gen_link_mem: the lines printed, one per peripheral:
\* println!("{} = 0x{:08x}", name, periph.base_address).
gen_link_mem(d) ==
    [k \in 1..Len(d.peripherals) |->
        [name |-> link_name(d, d.peripherals[k].name),
         base_address |-> d.peripherals[k].base_address]]

\* ------------------------------------------------------- snapshot reader

Got(k, v, n) == [kind |-> k, value |-> v, name |-> n]

\* Option::None.unwrap()
UnwrapNone == Got("panic", 0, "unwrap on None")

RECURSIVE MatchArms(_, _, _)
\* match raw { $($vals => Some($enum_name::$keys)),*, _ => None }: the first
\* arm whose value is raw, from arm i on.
MatchArms(vs, raw, i) ==
    IF i > Len(vs) THEN UnwrapNone
    ELSE IF vs[i].value = raw
         THEN Got("variant", vs[i].value, to_pascal_case(vs[i].name))
         ELSE MatchArms(vs, raw, i + 1)

\* <Reg>Get::<field>: the generated getter, applied to the cached word.
get_field(value, f) ==
    LET raw == And(Shr(value, bit_offset(f)), bit_width(f))
    IN  IF f.enum.some THEN MatchArms(f.enum.values, raw, 1)
        ELSE IF f.width = 1 THEN Got("bool", IF raw # 0 THEN 1 ELSE 0, "bool")
        ELSE Got("int", raw, gen_type(f).name)

\* -------------------------------------------------------------- the state

NoVal == 0 - 1

VARIABLES
    reg,      \* index in Regs of the register under access
    hw,       \* the register's word (VolatileCell<u32>)
    trace,    \* hardware accesses made in this scope, in order
    upd,      \* the staged writer of the current scope
    args,     \* per field, the last argument its setter got in this scope
    pre,      \* the register's word immediately before the commit
    snap,     \* the snapshot reader: the cached word
    got,      \* the last field getter call and what it returned
    again,    \* the last setter call gave its field another value than the
              \* call before it on the same field, in the same scope
    fld,      \* a field handed to gen_type
    ty,       \* what gen_type returned for it
    dev,      \* a device handed to gen_device and to gen_link_mem
    out,      \* what gen_device returned for it
    link,     \* what gen_link_mem printed for it
    registers,    \* gen_periph: the registers of the peripheral
    sorted_regs,  \* gen_periph: the registers, sorted
    lidx,         \* gen_periph: the next register of the loop
    lst,          \* gen_periph: offset, pad_num and reg_vec
    lpc,          \* gen_periph: "sort", "loop" or "done"
    ws            \* two staged writers alive on the register at once

accvars == << reg, hw, trace, upd, args, pre, snap, got, again >>

genvars == << fld, ty, dev, out, link >>

layvars == << registers, sorted_regs, lidx, lst, lpc >>

convars == << ws >>

vars == << accvars, genvars, layvars, convars >>

NoWriter == [state |-> "None", value |-> 0, mask |-> 0, write_only |-> FALSE]

NoSnap == [valid |-> FALSE, value |-> 0]

NoGot == [src |-> "none", field |-> 0, word |-> 0, res |-> Got("none", 0, "")]

Fields == Regs[reg].fields

\* Neither of the two writers exists.
NoWriters ==
    [k \in 1..2 |-> [u |-> NoWriter, args |-> << >>, base |-> NoVal, born |-> 0]]

WriterIdle == upd = NoWriter /\ pre = NoVal /\ again = FALSE

ReaderIdle == snap = NoSnap /\ got = NoGot

NoTy == Ty("none", "")

NoOut == [done |-> FALSE, panic |-> FALSE, dev_name |-> "", mods |-> << >>]

NoLink == [done |-> FALSE, lines |-> << >>]

IdleField == MkField("RX", 11, 1, "ReadWrite", NoEnum)

IdleDevice == [name |-> "STM", peripherals |-> << >>]

GenIdle ==
    fld = IdleField /\ ty = NoTy /\ dev = IdleDevice /\ out = NoOut /\ link = NoLink

LayoutIdle ==
    /\ registers = << >>
    /\ sorted_regs = << >>
    /\ lidx = 1
    /\ lst = LayoutStart
    /\ lpc = "done"

AccessIdle ==
    /\ reg = 1
    /\ hw = 0
    /\ trace = << >>
    /\ args = [i \in 1..Len(Regs[1].fields) |-> NoVal]
    /\ WriterIdle
    /\ ReaderIdle
    /\ ws = NoWriters

InitReg ==
    /\ reg \in 1..Len(Regs)
    /\ hw \in 0..MaxHw
    /\ ws = NoWriters
    /\ trace = << >>
    /\ args = [i \in 1..Len(Regs[reg].fields) |-> NoVal]
    /\ GenIdle
    /\ LayoutIdle

\* ------------------------------------------------ staged writer protocol

Init == InitReg /\ WriterIdle /\ ReaderIdle

\* let mut u = <Reg>Update::new(&reg);
New ==
    /\ upd.state = "None"
    /\ HasUpdater(Regs[reg])
    /\ upd' = new(FALSE)
    /\ UNCHANGED << reg, hw, args, trace, pre, snap, got, again, genvars, layvars, convars >>

\* let mut u = reg.ignoring_state();
IgnoringState ==
    /\ upd.state = "None"
    /\ HasUpdater(Regs[reg])
    /\ upd' = new(TRUE)
    /\ UNCHANGED << reg, hw, args, trace, pre, snap, got, again, genvars, layvars, convars >>

\* u.set_<field>(x);
SetField ==
    /\ upd.state = "Created"
    /\ \E i \in 1..Len(Fields) :
         /\ HasSetter(Regs[reg], Fields[i])
         /\ \E x \in SetterInputs(Fields[i]) :
              /\ upd' = set_field(upd, Fields[i], x)
              /\ args' = [args EXCEPT ![i] = x]
              /\ again' = (args[i] # NoVal /\ args[i] # x)
    /\ UNCHANGED << reg, hw, trace, pre, snap, got, genvars, layvars, convars >>

\* let u = reg.set_<field>(x);   (the register-level setter)
RegSetField ==
    /\ upd.state = "None"
    /\ \E i \in 1..Len(Fields) :
         /\ HasSetter(Regs[reg], Fields[i])
         /\ \E x \in SetterInputs(Fields[i]) :
              /\ upd' = set_field(new(FALSE), Fields[i], x)
              /\ args' = [args EXCEPT ![i] = x]
    /\ UNCHANGED << reg, hw, trace, pre, snap, got, again, genvars, layvars, convars >>

\* The end of the writer's scope: drop runs.
Drop ==
    /\ upd.state = "Created"
    /\ LET evs == drop(upd, hw)
       IN  /\ trace' = trace \o evs
           /\ hw' = Apply(hw, evs)
    /\ pre' = hw
    /\ upd' = [upd EXCEPT !.state = "Committed"]
    /\ UNCHANGED << reg, args, snap, got, again, genvars, layvars, convars >>

Next == New \/ IgnoringState \/ SetField \/ RegSetField \/ Drop

Spec == Init /\ [][Next]_vars

\* ---------------------------------------------- snapshot reader protocol

InitRead == InitReg /\ WriterIdle /\ ReaderIdle

\* The reads of the register made on behalf of the snapshot reader among
\* the accesses t: every commit logged with them is a read followed by a
\* write.
ReaderReads(t) ==
    Len(SelectSeq(t, LAMBDA e : e.op = "read"))
        - Len(SelectSeq(t, LAMBDA e : e.op = "write"))

\* let s = reg.get();   (<Reg>Get::new: one hardware read, cached)
Get ==
    /\ HasGetter(Regs[reg])
    /\ snap' = [valid |-> TRUE, value |-> hw]
    /\ trace' = trace \o << Read >>
    /\ ReaderReads(trace) < MaxReads
    /\ got' = NoGot
    /\ UNCHANGED << reg, hw, upd, args, pre, again, genvars, layvars, convars >>

\* A field getter that reads the register again instead of decoding the
\* cached word.
GetField_rereads ==
    /\ snap.valid
    /\ \E i \in 1..Len(Fields) :
         /\ HasFieldGetter(Regs[reg], Fields[i])
         /\ got' = [src |-> "snap", field |-> i, word |-> hw,
                    res |-> get_field(hw, Fields[i])]
    /\ UNCHANGED << reg, hw, trace, upd, args, pre, snap, again, genvars, layvars, convars >>

\* s.<field>()
GetField ==
    /\ snap.valid
    /\ \E i \in 1..Len(Fields) :
         /\ HasFieldGetter(Regs[reg], Fields[i])
         /\ got' = [src |-> "snap", field |-> i, word |-> snap.value,
                    res |-> get_field(snap.value, Fields[i])]
    /\ UNCHANGED << reg, hw, trace, upd, args, pre, snap, again, genvars, layvars, convars >>

\* reg.<field>()   (the register-level getter: <Reg>Get::new(self).<field>())
RegGetField ==
    /\ ReaderReads(trace) < MaxReads
    /\ \E i \in 1..Len(Fields) :
         /\ HasFieldGetter(Regs[reg], Fields[i])
         /\ got' = [src |-> "reg", field |-> i, word |-> hw,
                    res |-> get_field(hw, Fields[i])]
    /\ trace' = trace \o << Read >>
    /\ UNCHANGED << reg, hw, upd, args, pre, snap, again, genvars, layvars, convars >>

\* reg.set_<field>(x);   while the snapshot s is alive: the writer the
\* register-level setter returns is dropped at the end of the statement.
\* Its commit reads the register and writes it.  (pre holds the word before
\* this statement, of which a behaviour has one.)
SetWhileSnapshot ==
    /\ snap.valid
    /\ pre = NoVal
    /\ \E i \in 1..Len(Fields) :
         /\ HasSetter(Regs[reg], Fields[i])
         /\ \E x \in SetterInputs(Fields[i]) :
              LET evs == drop(set_field(new(FALSE), Fields[i], x), hw)
              IN  /\ trace' = trace \o evs
                  /\ hw' = Apply(hw, evs)
    /\ pre' = hw
    /\ UNCHANGED << reg, upd, args, snap, got, again, genvars, layvars, convars >>

NextRead == Get \/ GetField \/ RegGetField \/ SetWhileSnapshot

SpecRead == InitRead /\ [][NextRead]_vars

\* --------------------------------------------------------- type selection

TypeInputs ==
    { MkField(n, 11, w, "ReadWrite", e) :
        n \in {"RX", "UART_PARITY"},
        w \in 0..MaxWidth,
        e \in {NoEnum, Enum("PARITY", ParityValues), Enum(NoName, ParityValues)} }

InitType ==
    /\ fld \in TypeInputs
    /\ ty = NoTy
    /\ dev = IdleDevice
    /\ out = NoOut
    /\ link = NoLink
    /\ AccessIdle
    /\ LayoutIdle

\* let field_ty = field.gen_type();
GenType ==
    /\ ty = NoTy
    /\ ty' = gen_type(fld)
    /\ UNCHANGED << accvars, fld, dev, out, link, layvars, convars >>

SpecType == InitType /\ [][GenType]_vars

\* ------------------------------------------------------ device generation

GenFields ==
    { MkField("RX", 3, w, a, e) :
        w \in 0..MaxWidth, a \in AccessModes, e \in {NoEnum, Enum(NoName, ParityValues)} }

GenRegs == { MkReg("CR", 0, a, << f >>) : a \in AccessModes, f \in GenFields }

GoodReg == MkReg("SR", 0, "None", << MkField("TXE", 7, 1, "None", NoEnum) >>)

\* One peripheral; the same peripheral derived from a second one; the same
\* peripheral with a second one derived from it; with two derived from it;
\* with a second one derived from it and a third derived from the second;
\* with a second one derived from it and a third one named UART.
Devices ==
    { [name |-> "STM", peripherals |-> ps] :
        ps \in UNION { { << Peripheral("UARTA", g, 4096, NoName, << r >>) >>,
                         << Peripheral("UARTA", g, 4096, "UARTB", << r >>),
                            Peripheral("UARTB", g, 8192, NoName, << GoodReg >>) >>,
                         << Peripheral("UARTA", g, 4096, NoName, << r >>),
                            Peripheral("UARTB", g, 8192, "UARTA", << >>) >>,
                         << Peripheral("UARTA", g, 4096, NoName, << r >>),
                            Peripheral("Uartc", g, 12288, "UARTA", << >>),
                            Peripheral("UARTB", g, 8192, "UARTA", << GoodReg >>) >>,
                         << Peripheral("UARTA", g, 4096, NoName, << r >>),
                            Peripheral("UARTB", g, 8192, "UARTA", << >>),
                            Peripheral("Uartc", g, 12288, "UARTB", << >>) >>,
                         << Peripheral("UARTA", g, 4096, NoName, << r >>),
                            Peripheral("UARTB", g, 8192, "UARTA", << >>),
                            Peripheral("UART", NoName, 16384, NoName,
                                       << GoodReg >>) >> } :
                       g \in {NoName, "UART"}, r \in GenRegs } }

InitGen ==
    /\ dev \in Devices
    /\ out = NoOut
    /\ link = NoLink
    /\ fld = IdleField
    /\ ty = NoTy
    /\ AccessIdle
    /\ LayoutIdle

\* let items = gen_device(&mut cx, &dev);
GenDevice ==
    /\ ~out.done
    /\ out' = gen_device(dev)
    /\ UNCHANGED << accvars, fld, ty, dev, link, layvars, convars >>

\* gen_link_mem(&dev);
GenLinkMem ==
    /\ ~link.done
    /\ link' = [done |-> TRUE, lines |-> gen_link_mem(dev)]
    /\ UNCHANGED << accvars, fld, ty, dev, out, layvars, convars >>

NextGen == GenDevice \/ GenLinkMem

SpecGen == InitGen /\ [][NextGen]_vars

\* ------------------------------------------------------- layout building

LayoutInputs ==
    UNION { { [k \in 1..n |-> MkReg(k, offs[k], "None", << >>)] :
                offs \in [1..n -> 0..MaxOffset] } : n \in 0..MaxRegs }

InitLayout ==
    /\ registers \in LayoutInputs
    /\ sorted_regs = << >>
    /\ lidx = 1
    /\ lst = LayoutStart
    /\ lpc = "sort"
    /\ AccessIdle
    /\ GenIdle

\* sorted_regs.sort_by_key(|r| r.address_offset);
SortRegs ==
    /\ lpc = "sort"
    /\ sorted_regs' = sort_by_key(registers)
    /\ lpc' = "loop"
    /\ UNCHANGED << accvars, genvars, registers, lidx, lst, convars >>

\* One pass of `for reg in sorted_regs`.
LoopStep ==
    /\ lpc = "loop"
    /\ lidx <= Len(sorted_regs)
    /\ lst' = layout_step(lst, sorted_regs[lidx])
    /\ lidx' = lidx + 1
    /\ UNCHANGED << accvars, genvars, registers, sorted_regs, lpc, convars >>

\* The loop ends: the struct is built from reg_vec.
LoopEnd ==
    /\ lpc = "loop"
    /\ lidx > Len(sorted_regs)
    /\ lpc' = "done"
    /\ UNCHANGED << accvars, genvars, registers, sorted_regs, lidx, lst, convars >>

NextLayout == SortRegs \/ LoopStep \/ LoopEnd

SpecLayout == InitLayout /\ [][NextLayout]_vars

\* ------------------------------------------- two writers on one register

\* The words the register may hold before the two scopes start: 0x00, 0x11,
\* 0x22, ... up to MaxHw.
TwoWords == { h \in 0..MaxHw : h % 17 = 0 }

InitTwo ==
    /\ reg \in 1..Len(Regs)
    /\ hw \in TwoWords
    /\ trace = << >>
    /\ args = [i \in 1..Len(Regs[reg].fields) |-> NoVal]
    /\ WriterIdle
    /\ ReaderIdle
    /\ ws = NoWriters
    /\ GenIdle
    /\ LayoutIdle

ReadBy(k) == [op |-> "read", v |-> 0, by |-> k]

WriteBy(k, v) == [op |-> "write", v |-> v, by |-> k]

\* The fields whose setter writer k has called.
TouchedBy(k) == { i \in DOMAIN ws[k].args : ws[k].args[i] # NoVal }

\* let mut u<k> = <Reg>Update::new(&reg);   (both writers borrow the
\* register shared: `reg: &'a <Reg>`)
TwoNew(k) ==
    /\ ws[k].u.state = "None"
    /\ HasUpdater(Regs[reg])
    /\ ws' = [ws EXCEPT ![k] = [u |-> new(FALSE),
                                args |-> [i \in 1..Len(Fields) |-> NoVal],
                                base |-> NoVal,
                                born |-> Len(trace)]]
    /\ UNCHANGED << accvars, genvars, layvars >>

\* u<k>.set_<field>(x);   on a field the other writer has not set
TwoSetField(k) ==
    /\ ws[k].u.state = "Created"
    /\ \E i \in 1..Len(Fields) :
         /\ HasSetter(Regs[reg], Fields[i])
         /\ i \notin TouchedBy(3 - k)
         /\ \E x \in SetterInputs(Fields[i]) :
              ws' = [ws EXCEPT ![k].u = set_field(@, Fields[i], x),
                               ![k].args[i] = x]
    /\ UNCHANGED << accvars, genvars, layvars >>

\* drop of u<k> with nothing staged: `if self.mask != 0` fails.
TwoDropIdle(k) ==
    /\ ws[k].u.state = "Created"
    /\ drop(ws[k].u, hw) = << >>
    /\ ws' = [ws EXCEPT ![k].u.state = "Committed"]
    /\ UNCHANGED << accvars, genvars, layvars >>

\* drop of u<k>, first access: self.reg.value.get()
TwoDropRead(k) ==
    /\ ws[k].u.state = "Created"
    /\ drop(ws[k].u, hw) # << >>
    /\ ws' = [ws EXCEPT ![k].u.state = "Reading", ![k].base = hw]
    /\ trace' = Append(trace, ReadBy(k))
    /\ UNCHANGED << reg, hw, upd, args, pre, snap, got, again, genvars, layvars >>

\* The second access of a commit that reads the register again when it
\* writes.
TwoDropWrite_atomic(k) ==
    /\ ws[k].u.state = "Reading"
    /\ LET v == Apply(hw, drop(ws[k].u, hw))
       IN  /\ hw' = v
           /\ trace' = Append(trace, WriteBy(k, v))
    /\ ws' = [ws EXCEPT ![k].u.state = "Committed"]
    /\ UNCHANGED << reg, upd, args, pre, snap, got, again, genvars, layvars >>

\* drop of u<k>, second access: self.reg.value.set(self.value | v), v
\* computed from the word read before.
TwoDropWrite(k) ==
    /\ ws[k].u.state = "Reading"
    /\ LET v == Apply(hw, drop(ws[k].u, ws[k].base))
       IN  /\ hw' = v
           /\ trace' = Append(trace, WriteBy(k, v))
    /\ ws' = [ws EXCEPT ![k].u.state = "Committed"]
    /\ UNCHANGED << reg, upd, args, pre, snap, got, again, genvars, layvars >>

NextTwo ==
    \E k \in 1..2 :
        \/ TwoNew(k)
        \/ TwoSetField(k)
        \/ TwoDropIdle(k)
        \/ TwoDropRead(k)
        \/ TwoDropWrite(k)

SpecTwo == InitTwo /\ [][NextTwo]_vars

\* ------------------------------------------------------------- properties

\* Hardware writes among the accesses t.
Writes(t) == Len(SelectSeq(t, LAMBDA e : e.op = "write"))

\* mask(w) = (1 << w) - 1, and the value a word holds in field f.
Mask(w) == (2 ^ w) - 1

FieldOf(word, f) == Shr(word, f.offset) % (2 ^ f.width)

\* The fields whose setter was called in this scope.
Touched == { i \in 1..Len(Fields) : args[i] # NoVal }

Committed == upd.state = "Committed"

\* C1: a staged-writer scope makes at most one hardware write, whatever
\* setters were called in it, and no write is made before the commit at the
\* end of the scope.
C1_AtMostOneWrite ==
    /\ Writes(trace) <= 1
    /\ Writes(trace) = 1 => Committed

C1_Witness == Committed /\ Writes(trace) = 1 /\ Cardinality(Touched) >= 2

\* C2: after a normal-mode writer commits, every field no setter call of the
\* scope targeted holds the value it held in hardware just before the commit.
C2_SiblingsPreserved ==
    (Committed /\ ~upd.write_only) =>
        \A i \in 1..Len(Fields) :
            i \notin Touched => FieldOf(hw, Fields[i]) = FieldOf(pre, Fields[i])

\* C3: a normal-mode writer that sets only field A (offset o, width w) to
\* x < 2^w and commits leaves (old & ~(mask(w) << o)) | (x << o) in hardware.
C3_SingleFieldCommit ==
    \A i \in 1..Len(Fields) :
        (Committed /\ ~upd.write_only /\ Touched = {i}
           /\ args[i] < 2 ^ Fields[i].width) =>
            hw = Or(AndNot(pre, Shl(Mask(Fields[i].width), Fields[i].offset)),
                    Shl(args[i], Fields[i].offset))

\* C4: an ignoring-state writer that sets only field A (offset o, width w)
\* to x < 2^w and commits leaves exactly x << o in hardware.
C4_IgnoringStateCommit ==
    \A i \in 1..Len(Fields) :
        (Committed /\ upd.write_only /\ Touched = {i}
           /\ args[i] < 2 ^ Fields[i].width) =>
            hw = Shl(args[i], Fields[i].offset)

\* C5: the commit writes hardware exactly once if a setter was called in the
\* scope, and not at all (the word unchanged) if none was.
C5_WriteIffSet ==
    Committed =>
        /\ Writes(trace) = (IF Touched = {} THEN 0 ELSE 1)
        /\ Touched = {} => hw = pre

\* C6: the getter of a field without enumerated values returns the value x
\* the raw word holds in the field's bits (x # 0 for a one-bit field).
C6_GetterRoundTrip ==
    got.res.kind \in {"bool", "int"} =>
        got.res.value = FieldOf(got.word, Fields[got.field])

\* C9: the getter of an enumerated field returns the variant whose value is
\* the raw field value, and signals the error for a raw field value that no
\* variant has.
C9_EnumGetter ==
    (got.field # 0 /\ Fields[got.field].enum.some) =>
        LET x == FieldOf(got.word, Fields[got.field])
        IN  /\ x \in EnumVals(Fields[got.field]) =>
                 got.res.kind = "variant" /\ got.res.value = x
            /\ x \notin EnumVals(Fields[got.field]) => got.res.kind = "panic"

\* The storage type the width table gives for width w.
ExpectedTy(w) ==
    IF w = 1 THEN "bool"
    ELSE IF w >= 2 /\ w <= 8 THEN "u8"
    ELSE IF w >= 9 /\ w <= 16 THEN "u16"
    ELSE IF w >= 17 /\ w <= 32 THEN "u32"
    ELSE IF w >= 33 /\ w <= 64 THEN "u64"
    ELSE "panic"

\* C7: without enumerated values the type follows from the width alone (1 ->
\* bool, 2..8 -> u8, 9..16 -> u16, 17..32 -> u32, 33..64 -> u64, any other
\* width is fatal); with enumerated values it is the variant type named
\* after the enumeration if it has a name, else after the field.
C7_TypeSelection ==
    ty # NoTy =>
        IF fld.enum.some
        THEN /\ ty.kind = "id"
             /\ ty.name = to_pascal_case(IF fld.enum.name # NoName
                                         THEN fld.enum.name ELSE fld.name)
        ELSE ty.kind = ExpectedTy(fld.width)

C7_Witness == ty.kind = "u8" /\ fld.width = 8 /\ ~fld.enum.some

\* A bit width no storage type exists for, and a device holding one.
BadWidth(f) == f.width = 0 \/ f.width > 64

HasBadWidth(d) ==
    \E k \in 1..Len(d.peripherals) :
        \E j \in 1..Len(d.peripherals[k].registers) :
            \E i \in 1..Len(d.peripherals[k].registers[j].fields) :
                BadWidth(d.peripherals[k].registers[j].fields[i])

\* C8: generation of a device aborts, with no output, whenever a field of a
\* register of the device has bit width 0 or above 64.
C8_BadWidthAborts ==
    (out.done /\ HasBadWidth(dev)) => (out.panic /\ out.mods = << >>)

\* The bytes of the slots before slot k, and the declared offset of the
\* register a register slot names.
RECURSIVE SizeBefore(_, _)
SizeBefore(v, k) == IF k <= 1 THEN 0 ELSE SizeBefore(v, k - 1) + v[k - 1].size

DeclaredOffset(slot) == registers[slot.name].address_offset

\* C10: in the layout plan every register slot starts at the register's
\* declared offset (4 bytes per register slot, n per padding slot); a
\* padding slot stands exactly where a register's offset is above the
\* cursor, sized offset - cursor; the slots' offsets never decrease.
C10_SlotsAtDeclaredOffsets ==
    LET v == lst.reg_vec
    IN  /\ SizeBefore(v, Len(v) + 1) = lst.offset
        /\ \A k \in 1..Len(v) :
            /\ v[k].kind = "reg" => SizeBefore(v, k) = DeclaredOffset(v[k])
            /\ v[k].kind = "pad" =>
                 /\ v[k].size > 0
                 /\ k < Len(v)
                 /\ v[k + 1].kind = "reg"
                 /\ v[k].size = DeclaredOffset(v[k + 1]) - SizeBefore(v, k)
                 /\ k > 1 => v[k - 1].kind = "reg"
            /\ k > 1 => SizeBefore(v, k - 1) <= SizeBefore(v, k)

C10_Witness ==
    /\ lpc = "done"
    /\ \E k \in 2..Len(lst.reg_vec) : lst.reg_vec[k].kind = "pad"
    /\ Len(lst.reg_vec) >= 3

\* The registers the plan declares (SpecLayout names a register by its
\* position in the input), and the plan's register slots in order.
KeptNames ==
    { lst.reg_vec[k].name : k \in { j \in 1..Len(lst.reg_vec) :
                                      lst.reg_vec[j].kind = "reg" } }

RegSlots == SelectSeq(lst.reg_vec, LAMBDA s : s.kind = "reg")

\* The end of the last register kept before sorted_regs[i]; 0 if none was.
RECURSIVE PrevKeptEnd(_)
PrevKeptEnd(i) ==
    IF i <= 1 THEN 0
    ELSE IF sorted_regs[i - 1].name \in KeptNames
         THEN sorted_regs[i - 1].address_offset + 4
         ELSE PrevKeptEnd(i - 1)

\* C11: a register whose offset is strictly below the layout cursor (the end
\* of the previously kept register) is left out of the plan and the loop goes
\* on to the registers after it, all of which are visited; every other
\* register is declared.  Of registers at the same offset a later one is
\* never declared, and a peripheral of two registers at one offset gets
\* exactly one register slot, that of the first of the two.
C11_OverlapDropped ==
    lpc # "sort" =>
        /\ \A i \in 1..(lidx - 1) :
             (sorted_regs[i].name \in KeptNames)
                 <=> (sorted_regs[i].address_offset >= PrevKeptEnd(i))
        /\ \A i, j \in 1..(lidx - 1) :
             (i < j /\ sorted_regs[i].address_offset = sorted_regs[j].address_offset)
                 => sorted_regs[j].name \notin KeptNames
        /\ lpc = "done" =>
             /\ lidx = Len(registers) + 1
             /\ (Len(registers) = 2
                   /\ registers[1].address_offset = registers[2].address_offset)
                  => (Len(RegSlots) = 1 /\ RegSlots[1].name = 1)

C11_Witness ==
    /\ lpc = "done"
    /\ Len(registers) = 3
    /\ registers[3].address_offset = registers[2].address_offset
    /\ registers[1].address_offset = registers[2].address_offset + 4
    /\ KeptNames = {1, 2}

RECURSIVE MaxOffsetOf(_, _)
\* The address offset of the last register of rs in ascending offset order,
\* among its first n registers.
MaxOffsetOf(rs, n) ==
    IF n = 1 THEN rs[1].address_offset
    ELSE LET m == MaxOffsetOf(rs, n - 1)
         IN  IF rs[n].address_offset > m THEN rs[n].address_offset ELSE m

\* The register slots of the plan stand in strictly ascending order of
\* declared offset.
SlotsAscend ==
    \A k \in 1..(Len(RegSlots) - 1) :
        DeclaredOffset(RegSlots[k]) < DeclaredOffset(RegSlots[k + 1])

Aligned == \A k \in 1..Len(registers) : registers[k].address_offset % 4 = 0

\* C12 as stated: the slot sizes of a finished plan sum to (the address
\* offset of the peripheral's last register in ascending offset order) + 4,
\* and the register slots are declared in ascending offset order.
C12_PlanCoversLastRegister ==
    (lpc = "done" /\ registers # << >>) =>
        /\ SizeBefore(lst.reg_vec, Len(lst.reg_vec) + 1)
             = MaxOffsetOf(registers, Len(registers)) + 4
        /\ SlotsAscend

\* C12 amended: the slot sizes of a finished plan sum to (the address offset
\* of the last register the plan keeps) + 4, which is the offset of the
\* peripheral's last register + 4 when every offset is a multiple of 4; the
\* register slots are declared in strictly ascending offset order, each at
\* its declared offset, so the plan has neither gap nor overlap.
C12_PlanCoversLastKept ==
    (lpc = "done" /\ registers # << >>) =>
        /\ SizeBefore(lst.reg_vec, Len(lst.reg_vec) + 1)
             = DeclaredOffset(RegSlots[Len(RegSlots)]) + 4
        /\ Aligned => SizeBefore(lst.reg_vec, Len(lst.reg_vec) + 1)
                        = MaxOffsetOf(registers, Len(registers)) + 4
        /\ SlotsAscend
        /\ \A k \in 1..Len(lst.reg_vec) :
             lst.reg_vec[k].kind = "reg" =>
                 SizeBefore(lst.reg_vec, k) = DeclaredOffset(lst.reg_vec[k])

C12_Witness ==
    /\ lpc = "done"
    /\ Len(registers) = 2
    /\ registers[1].address_offset = 0
    /\ registers[2].address_offset = 8
    /\ lst.reg_vec = << RegSlot(1), PadSlot(0, 4), RegSlot(2) >>
    /\ SizeBefore(lst.reg_vec, 4) = 12

\* C13: constructing a snapshot makes exactly one hardware read and caches
\* the word read; a getter called on the snapshot decodes the cached word
\* and makes no hardware access; a write to the register made after the
\* snapshot was taken (a step that leaves another word in the register or
\* logs a write) changes neither the cached word nor what the snapshot's
\* getters have returned or return afterwards.
C13_SnapshotReadsOnce ==
    /\ [](got.src = "snap" =>
            /\ snap.valid
            /\ got.word = snap.value
            /\ got.res = get_field(snap.value, Fields[got.field]))
    /\ [][snap' # snap =>
            (trace' = trace \o << Read >> /\ snap'.value = hw /\ hw' = hw)]_vars
    /\ [][(got' # got /\ got'.src = "snap") =>
            (trace' = trace /\ hw' = hw /\ snap' = snap)]_vars
    /\ [][(hw' # hw \/ Writes(trace') # Writes(trace)) =>
            (snap' = snap /\ got' = got)]_vars

C13_Witness ==
    /\ got.src = "snap"
    /\ ReaderReads(trace) = 1
    /\ Writes(trace) = 1
    /\ Len(trace) = 3
    /\ pre # NoVal
    /\ hw # snap.value
    /\ got.res # get_field(hw, Fields[got.field])

\* C14: a staged writer exists only for a register that is not read-only and
\* a setter is called only on a field where neither the register nor the
\* field is read-only, so that no generated operation writes a read-only
\* register or reads a write-only one: the hardware accesses of the scope
\* hold no write of a read-only register and no read of a write-only one.
C14_AccessGating ==
    /\ upd.state # "None" => Regs[reg].access # "ReadOnly"
    /\ \A i \in Touched :
         Regs[reg].access # "ReadOnly" /\ Fields[i].access # "ReadOnly"
    /\ Regs[reg].access = "ReadOnly" => Writes(trace) = 0
    /\ Regs[reg].access = "WriteOnly" =>
         \A k \in 1..Len(trace) : trace[k].op # "read"

\* The peripherals of the device under generation, and the link
\* declarations of all its modules.
Periphs == dev.peripherals

Derived(k) == Periphs[k].derived_from # NoName

RECURSIVE AllStatics(_)
AllStatics(n) ==
    IF n = 0 THEN << >> ELSE AllStatics(n - 1) \o out.mods[n].statics

\* The link declarations of module m that bind the symbol sym.
DeclsIn(m, sym) ==
    Len(SelectSeq(out.mods[m].statics, LAMBDA st : st.link_name = sym))

Symbol(k) == to_snake_case("mmap_" \o dev.name \o "_" \o Periphs[k].name)

Generated == out.done /\ ~out.panic

\* C15: a peripheral with derived_from set gets no module, register block
\* or register items of its own; its only output is one link declaration,
\* which stands in the module of the peripheral it derives from and has the
\* type of that peripheral's register block.
C15_AliasOnlyLinked ==
    Generated =>
        \A k \in 1..Len(Periphs) :
            Derived(k) =>
                /\ \A m \in 1..Len(out.mods) : out.mods[m].base # Periphs[k].name
                /\ \E m \in 1..Len(out.mods) :
                     /\ out.mods[m].base = Periphs[k].derived_from
                     /\ DeclsIn(m, Symbol(k)) = 1
                     /\ \A st \in { out.mods[m].statics[j] :
                                      j \in 1..Len(out.mods[m].statics) } :
                          st.link_name = Symbol(k) =>
                              st.periph_ty = out.mods[m].periph_items.ty
                     /\ \A n \in 1..Len(out.mods) : n # m => DeclsIn(n, Symbol(k)) = 0

\* Every derived_from names a peripheral of the device that is not derived.
WellDerived ==
    \A k \in 1..Len(Periphs) :
        Derived(k) =>
            \E j \in 1..Len(Periphs) :
                Periphs[j].name = Periphs[k].derived_from /\ ~Derived(j)

\* C16: if every derived_from names a non-derived peripheral of the device,
\* gen_device declares exactly one link for every peripheral, base or alias,
\* and no other; its symbol is the snake-cased mmap_<device>_<peripheral>,
\* the symbol gen_link_mem prints for that peripheral; gen_link_mem prints
\* one line for every peripheral, in input order.
C16_OneLinkPerPeripheral ==
    /\ (Generated /\ WellDerived) =>
         /\ Len(AllStatics(Len(out.mods))) = Len(Periphs)
         /\ \A k \in 1..Len(Periphs) :
              Len(SelectSeq(AllStatics(Len(out.mods)),
                            LAMBDA st : st.link_name = Symbol(k))) = 1
    /\ link.done =>
         /\ Len(link.lines) = Len(Periphs)
         /\ \A k \in 1..Len(Periphs) :
              /\ link.lines[k].name = Symbol(k)
              /\ link.lines[k].base_address = Periphs[k].base_address

C16_Witness ==
    /\ Generated
    /\ link.done
    /\ WellDerived
    /\ Len(Periphs) = 3
    /\ Derived(2) /\ Derived(3)
    /\ Len(out.mods) = 1
    /\ Len(out.mods[1].statics) = 3
    /\ out.mods[1].statics[3].link_name = "mmap_stm_uartc"

\* The kinds of the hardware accesses t, in order.
Ops(t) == [k \in 1..Len(t) |-> t[k].op]

\* The bits of field f in a word.
FieldBits(f) == Shl(Mask(f.width), f.offset)

\* C17: on a write-only register every staged writer, the one the
\* register-level setter creates included, commits without reading the
\* register and leaves zero in every field no setter of the scope targeted;
\* on a read-write register a normal-mode commit reads the register first.
C17_WriteOnlyZeroFills ==
    /\ (Committed /\ Regs[reg].access = "WriteOnly") =>
         /\ \A k \in 1..Len(trace) : trace[k].op # "read"
         /\ Writes(trace) = 1 =>
              \A i \in 1..Len(Fields) :
                  i \notin Touched => FieldOf(hw, Fields[i]) = 0
    /\ (Committed /\ Regs[reg].access = "ReadWrite" /\ ~upd.write_only
          /\ Writes(trace) = 1) => Ops(trace) = << "read", "write" >>

\* C18: before the commit a scope has made no hardware access, whatever was
\* constructed and whichever setters were called; a commit with a non-zero
\* mask makes one read followed by one write in normal mode, and one write
\* and no read in ignoring-state mode.
C18_ScopeTrace ==
    /\ ~Committed => trace = << >>
    /\ (Committed /\ upd.mask # 0) =>
         Ops(trace) = IF upd.write_only THEN << "write" >>
                      ELSE << "read", "write" >>

C18_Witness ==
    /\ Committed
    /\ upd.write_only
    /\ Cardinality(Touched) >= 2
    /\ Ops(trace) = << "write" >>
    /\ pre # 0

\* C19: a writer on which only the setter of field i (offset o, width w >= 1)
\* was called, last with n, holds (n & mask(w)) << o as its value and
\* mask(w) << o as its mask, where mask(w) = (1 << w) - 1.
C19_SetterEncodes ==
    \A i \in 1..Len(Fields) :
        (upd.state # "None" /\ Touched = {i} /\ Fields[i].width >= 1) =>
            /\ upd.value = Shl(And(args[i], Mask(Fields[i].width)), Fields[i].offset)
            /\ upd.mask = FieldBits(Fields[i])

\* C20: the word a commit writes is value | (base & !reserved_bit & !mask),
\* base being 0 for an ignoring-state writer and the word read at commit
\* otherwise, and reserved_bit removes no bit of a declared field that no
\* setter of the scope targeted: such a field holds in the written word what
\* it holds in base.
C20_CommitWord ==
    (Committed /\ Writes(trace) = 1) =>
        LET base == IF upd.write_only THEN 0 ELSE pre
        IN  /\ hw = Or(upd.value, AndNot(AndNot(base, clear_mask), upd.mask))
            /\ \A i \in 1..Len(Fields) :
                 i \notin Touched =>
                     And(hw, FieldBits(Fields[i])) = And(base, FieldBits(Fields[i]))

\* A step in which a setter was called with an argument other than the last
\* one its field got in the scope.
SetterStep == upd'.state = "Created" /\ args' # args

\* C21 as stated: a setter only ORs into the accumulators: every bit set in
\* the accumulated value or in the accumulated mask before the call is still
\* set after it, also when the same field is set a second time with another
\* value.
C21_SetterOnlyOrs ==
    [][SetterStep =>
         /\ AndNot(upd.value, upd'.value) = 0
         /\ AndNot(upd.mask, upd'.mask) = 0]_vars

\* The mask and the value a fresh writer holds after the setter of field f
\* was called on it with x: the bits the call stages.
StagedMask(f) == set_field(new(FALSE), f, 0).mask

StagedValue(f, x) == set_field(new(FALSE), f, x).value

\* C21 amended: a setter ORs into the accumulated mask and replaces its
\* field in the accumulated value.  With M and E the mask and the value the
\* same call leaves in a fresh writer: mask_after = mask_before | M and
\* value_after = (value_before & !M) | E; M depends on the field alone, is
\* not empty and lies inside the field's bit range, E lies inside M; for a
\* one-bit field M = 1 << o and E = n << o.  So every mask bit set before the
\* call is still set, every value bit outside M is unchanged, and a value
\* bit inside M that an earlier call on the same field set is cleared when
\* the field is set again with a value that lacks it.
C21_SetterReplacesField ==
    [][SetterStep =>
         \A i \in 1..Len(Fields) :
             (args'[i] # args[i] /\ Fields[i].width >= 1) =>
                 LET M == StagedMask(Fields[i])
                     E == StagedValue(Fields[i], args'[i])
                 IN  /\ upd'.mask = Or(upd.mask, M)
                     /\ upd'.value = Or(AndNot(upd.value, M), E)
                     /\ M # 0
                     /\ AndNot(M, FieldBits(Fields[i])) = 0
                     /\ AndNot(E, M) = 0
                     /\ \A x \in SetterInputs(Fields[i]) :
                          StagedMask(Fields[i])
                              = set_field(new(TRUE), Fields[i], x).mask
                     /\ Fields[i].width = 1 =>
                          /\ M = Shl(1, Fields[i].offset)
                          /\ E = Shl(args'[i], Fields[i].offset)
                     /\ again' =>
                          And(upd'.value, M) = E]_vars

\* A one-bit field was set to 1 and then, in the same scope, to 0: the value
\* bit the first call staged is clear again, the mask bit still set, and
\* the bits another field staged are still there.
C21_Witness ==
    /\ upd.state = "Created"
    /\ again
    /\ Cardinality(Touched) >= 2
    /\ \E i \in Touched :
         /\ Fields[i].width = 1
         /\ args[i] = 0
         /\ And(upd.value, FieldBits(Fields[i])) = 0
         /\ And(upd.mask, FieldBits(Fields[i])) = FieldBits(Fields[i])
    /\ upd.value # 0

\* The peripherals of the device have pairwise distinct names.
DistinctNames ==
    \A j, k \in 1..Len(Periphs) : j # k => Periphs[j].name # Periphs[k].name

\* The peripheral a module was generated for.
BaseOf(m) ==
    CHOOSE p \in { Periphs[k] : k \in 1..Len(Periphs) } : p.name = out.mods[m].base

\* C22: in a device whose peripherals have distinct names the modules of the
\* peripherals that are not derived have pairwise distinct names; a module
\* is named after the group only if peripherals derive from its peripheral
\* and no earlier module took the group's name.
C22_DistinctNamespaces ==
    (Generated /\ DistinctNames) =>
        /\ \A m, n \in 1..Len(out.mods) :
             m # n => /\ out.mods[m].mod_name # out.mods[n].mod_name
                      /\ out.mods[m].periph_name # out.mods[n].periph_name
        /\ \A m \in 1..Len(out.mods) :
             (out.mods[m].periph_name # BaseOf(m).name) =>
                 /\ out.mods[m].periph_name = BaseOf(m).group_name
                 /\ out.mods[m].aliases # {}
                 /\ \A n \in 1..(m - 1) :
                      out.mods[n].periph_name # BaseOf(m).group_name

\* Writer k has made the access op, and where in the trace.
HasEv(op, k) == \E n \in 1..Len(trace) : trace[n].op = op /\ trace[n].by = k

Pos(op, k) == CHOOSE n \in 1..Len(trace) : trace[n].op = op /\ trace[n].by = k

BothCommitted == \A k \in 1..2 : ws[k].u.state = "Committed"

\* Both writers were constructed before either commit began.
AliveTogether == \A k \in 1..2 : ws[k].u.state # "None" /\ ws[k].born = 0

\* Writer j wrote the register between the read and the write of writer
\* k's commit.
Interleaved(k, j) ==
    /\ HasEv("read", k) /\ HasEv("write", k) /\ HasEv("write", j)
    /\ Pos("read", k) < Pos("write", j)
    /\ Pos("write", j) < Pos("write", k)

\* C23: two normal-mode writers alive at the same time on one register,
\* setting disjoint fields, whose commits run one after the other in either
\* order, leave in the register the value each of them set in each of its
\* fields.
C23_SequentialCommitsKeepBoth ==
    (BothCommitted /\ AliveTogether
       /\ TouchedBy(1) # {} /\ TouchedBy(2) # {}
       /\ ~Interleaved(1, 2) /\ ~Interleaved(2, 1)) =>
        \A k \in 1..2 :
            \A i \in TouchedBy(k) :
                ws[k].args[i] < 2 ^ Fields[i].width =>
                    FieldOf(hw, Fields[i]) = ws[k].args[i]

\* C24: the commit is a read followed by a write, and a write another
\* writer's commit makes between the two is lost: once both have committed,
\* the bits the other writer staged hold what the word this commit had read
\* held there (less the bit clear_mask removes), not what the other wrote.
C24_LostUpdate ==
    \A k \in 1..2 :
        (BothCommitted /\ Interleaved(k, 3 - k)) =>
            And(hw, ws[3 - k].u.mask)
                = And(AndNot(ws[k].base, clear_mask), ws[3 - k].u.mask)

\* A one-bit field above bit 0 that one writer set to 1 and committed holds
\* 0 after the other writer's commit, which had read the register before.
C24_Witness ==
    \E k \in 1..2 :
        /\ BothCommitted
        /\ AliveTogether
        /\ Interleaved(k, 3 - k)
        /\ TouchedBy(k) # {}
        /\ \E i \in TouchedBy(3 - k) :
             /\ Fields[i].width = 1
             /\ Fields[i].offset # 0
             /\ ws[3 - k].args[i] = 1
             /\ FieldOf(hw, Fields[i]) = 0

====
